---- MODULE Spec2Model ----
(***************************************************************************)
(* A model of the message bus of lppedd/event-bus: MessageBusImpl (the     *)
(* publish queue, the deferred drain, the broadcast to child and parent    *)
(* buses, the local dispatch), SubscriptionRegistry and                    *)
(* HandlerRegistration.                                                    *)
(*                                                                         *)
(* JavaScript runs one job at a time.  A step of the model is either one   *)
(* synchronous call of the public API made by the program that uses the    *)
(* bus, or one job of the microtask queue: the drain of one bus, with      *)
(* every handler it invokes.                                               *)
(***************************************************************************)
EXTENDS Integers, Sequences, FiniteSets

\* ------------------------------------------------------------------ bounds
\* The buses of a tree.
MaxBuses == 3
\* The registrations: of SpecPriority (MaxRegs), of the other specifications.
MaxRegs == 3
MaxSpecRegs == 2
\* The messages published.
MaxMsgs == 2
\* The largest limit and the largest priority a subscription is given.
MaxLimit == 1
MaxPriority == 2
\* The listeners, the pulls on lazy subscriptions, the dispose() calls made on
\* buses (and on subscriptions) that are disposed already.
MaxListeners == 1
MaxPulls == 2
MaxDisposeCalls == 1
\* The messages published on a tree whose buses are being disposed.
MaxDisposeMsgs == 1
\* The listeners and the messages where the order of the listeners is examined.
MaxOrderedListeners == 2
MaxListenerMsgs == 1
\* Messages published in all when a handler publishes from inside a dispatch.
MaxReentrantMsgs == 3

\* --------------------------------------------------------------- constants
\* registry.ts: a lower priority value is invoked first, 1 unless given.
defaultPriority == 1
\* The limit subscribe() passes when none is given (the literal of the earlier
\* subscribe()): a negative `remaining` is never decremented.
defaultLimit == -1

Buses == 1..MaxBuses
RegIds == 1..MaxRegs
NoBus == 0
\* One topic of each broadcast direction (topic.ts, createTopic).
Topics == {"children", "parent"}
broadcastDirection(topic) == topic
\* What a subscribed callback does when it is invoked.
Behaviours == {"nop", "throw"}
Limits == {defaultLimit} \cup 1..MaxLimit
Priorities == 0..MaxPriority
\* The callbacks given to addListener.
Listeners == 1..MaxListeners
OrderedListeners == 1..MaxOrderedListeners

VARIABLES
  nBuses,          \* buses constructed so far: 1..nBuses
  myParent,        \* MessageBusImpl.myParent (NoBus: undefined)
  myOptions,       \* MessageBusImpl.myOptions.safePublishing
  myListeners,     \* MessageBusImpl.myListeners, in insertion order
  myRegistry,      \* SubscriptionRegistry.myMap: topic -> array of registrations
  myChildren,      \* MessageBusImpl.myChildren, in insertion order
  myPublishQueue,  \* MessageBusImpl.myPublishQueue
  myPublishing,    \* MessageBusImpl.myPublishing
  myDisposed,      \* MessageBusImpl.myDisposed
  nRegs,           \* registrations constructed so far: 1..nRegs
  regs,            \* the fields of each HandlerRegistration or LazyAsyncRegistration
  microtasks,      \* the host's microtask queue: the buses whose drain is scheduled
  published,       \* the successful publish() calls, in order: message d is published[d]
  log,             \* the calls observed, in order (the tests' vi.fn() mocks)
  pulls,           \* the promises returned by next(), in call order
  disposeCalls,    \* the dispose() calls made on disposed buses and subscriptions
  raised           \* the error the last step ended with, "none" if it returned

vars == <<nBuses, myParent, myOptions, myListeners, myRegistry, myChildren,
          myPublishQueue, myPublishing, myDisposed, nRegs, regs, microtasks,
          published, log, pulls, disposeCalls, raised>>

\* The whole state as one value, for the operators that compute a call's effect.
St ==
  [nBuses |-> nBuses, myParent |-> myParent, myOptions |-> myOptions,
   myListeners |-> myListeners, myRegistry |-> myRegistry, myChildren |-> myChildren,
   myPublishQueue |-> myPublishQueue, myPublishing |-> myPublishing,
   myDisposed |-> myDisposed, nRegs |-> nRegs, regs |-> regs,
   microtasks |-> microtasks, published |-> published, log |-> log,
   pulls |-> pulls, disposeCalls |-> disposeCalls, raised |-> "none"]

Install(s) ==
  /\ nBuses' = s.nBuses
  /\ myParent' = s.myParent
  /\ myOptions' = s.myOptions
  /\ myListeners' = s.myListeners
  /\ myRegistry' = s.myRegistry
  /\ myChildren' = s.myChildren
  /\ myPublishQueue' = s.myPublishQueue
  /\ myPublishing' = s.myPublishing
  /\ myDisposed' = s.myDisposed
  /\ nRegs' = s.nRegs
  /\ regs' = s.regs
  /\ microtasks' = s.microtasks
  /\ published' = s.published
  /\ log' = s.log
  /\ pulls' = s.pulls
  /\ disposeCalls' = s.disposeCalls
  /\ raised' = s.raised

\* An exception is in flight.
Failed(s) == s.raised # "none"

Event(k, b, r, d, n) == [k |-> k, bus |-> b, reg |-> r, msg |-> d, count |-> n]
Logged(s, e) == [s EXCEPT !.log = Append(@, e)]

\* ---------------------------------------------------------------- registry

\* SubscriptionRegistry.set: append to the topic's array.
SubscriptionRegistry_set(s, b, topic, r) ==
  [s EXCEPT !.myRegistry[b][topic] = Append(@, r)]

\* Array.indexOf: the first index holding r, 0 when absent.
IndexOf(arr, r) ==
  IF \E i \in 1..Len(arr) : arr[i] = r
  THEN CHOOSE i \in 1..Len(arr) : arr[i] = r /\ \A j \in 1..(i - 1) : arr[j] # r
  ELSE 0

\* Array.splice(index, 1).
Splice(arr, i) == SubSeq(arr, 1, i - 1) \o SubSeq(arr, i + 1, Len(arr))

\* SubscriptionRegistry.delete: remove by identity, nothing when absent.
SubscriptionRegistry_delete(s, b, topic, r) ==
  LET arr == s.myRegistry[b][topic]
      index == IndexOf(arr, r)
  IN IF index > 0 THEN [s EXCEPT !.myRegistry[b][topic] = Splice(arr, index)] ELSE s

\* -------------------------------------------------------- HandlerRegistration

RECURSIVE publish(_, _, _)
RECURSIVE dispose(_, _)

\* The callback given to subscribe(): a mock that records the call, then acts: it
\* returns, throws, publishes a further message of its topic on its bus (while
\* fewer than MaxReentrantMsgs were published), or disposes its bus.
myHandler(s, r, data) ==
  LET s1 == Logged(s, Event("handler", s.regs[r].bus, r, data, 0))
  IN CASE s.regs[r].beh = "throw" -> [s1 EXCEPT !.raised = "UserError"]
       [] s.regs[r].beh = "publish" ->
            IF Len(s1.published) < MaxReentrantMsgs
            THEN publish(s1, s.regs[r].bus, s.regs[r].topic)
            ELSE s1
       [] s.regs[r].beh = "dispose" -> dispose(s1, s.regs[r].bus)
       [] OTHER -> s1

\* Mutant of HandlerRegistration_dispose: the flag is set, the registry keeps the
\* registration.
HandlerRegistration_disposeFlagOnly(s, r) == [s EXCEPT !.regs[r].isDisposed = TRUE]

\* HandlerRegistration.dispose.
HandlerRegistration_dispose(s, r) ==
  SubscriptionRegistry_delete([s EXCEPT !.regs[r].isDisposed = TRUE],
                              s.regs[r].bus, s.regs[r].topic, r)

\* Mutant of Decremented: the remaining count is never consumed.
DecrementedNot(s, r) == s

\* HandlerRegistration.handler, this.remaining--.
Decremented(s, r) == [s EXCEPT !.regs[r].remaining = @ - 1]

\* HandlerRegistration.handler.
HandlerRegistration_handler(s, r, data) ==
  IF s.regs[r].remaining = 0
  THEN HandlerRegistration_dispose(s, r)
  ELSE myHandler(IF s.regs[r].remaining > 0 THEN Decremented(s, r) ELSE s, r, data)

\* ------------------------------------------------------ LazyAsyncRegistration

\* A promise returned by next(): pending, resolved with a value, resolved done, or
\* rejected. `form` tells whether single() made the call and maps the result.
Pull(r, state, value) == [reg |-> r, state |-> state, value |-> value, form |-> "next"]

\* LazyAsyncRegistration.dispose.
LazyAsyncRegistration_dispose(s, r) ==
  SubscriptionRegistry_delete([s EXCEPT !.regs[r].isDisposed = TRUE],
                              s.regs[r].bus, s.regs[r].topic, r)

\* Mutant of LazyAsyncRegistration_handler: the message resolves the newest
\* pending pull.
LazyAsyncRegistration_handlerNewest(s, r, data) ==
  IF s.regs[r].remaining = 0
  THEN LazyAsyncRegistration_dispose(s, r)
  ELSE LET s1 == IF s.regs[r].remaining > 0
                 THEN [s EXCEPT !.regs[r].remaining = @ - 1]
                 ELSE s
           q == s.regs[r].myPromiseQueue
       IN IF Len(q) > 0
          THEN [s1 EXCEPT !.regs[r].myPromiseQueue = SubSeq(q, 1, Len(q) - 1),
                          !.pulls[q[Len(q)]] = [@ EXCEPT !.state = "value", !.value = data]]
          ELSE [s1 EXCEPT !.regs[r].myDataQueue = Append(@, data)]

\* Mutant of LazyAsyncRegistration_handler: the registration is disposed by the
\* message that would consume its last delivery, which is not handed over.
LazyAsyncRegistration_handlerDisposing(s, r, data) ==
  IF s.regs[r].remaining = 0 \/ s.regs[r].remaining = 1
  THEN LazyAsyncRegistration_dispose([s EXCEPT !.regs[r].remaining = 0], r)
  ELSE LET s1 == IF s.regs[r].remaining > 0
                 THEN [s EXCEPT !.regs[r].remaining = @ - 1]
                 ELSE s
       IN IF Len(s1.regs[r].myPromiseQueue) > 0
          THEN [s1 EXCEPT !.regs[r].myPromiseQueue = Tail(@),
                          !.pulls[Head(s.regs[r].myPromiseQueue)] =
                             [@ EXCEPT !.state = "value", !.value = data]]
          ELSE [s1 EXCEPT !.regs[r].myDataQueue = Append(@, data)]

\* Mutant of LazyAsyncRegistration_handler: the message is buffered even when a
\* pull is pending.
LazyAsyncRegistration_handlerBuffers(s, r, data) ==
  IF s.regs[r].remaining = 0
  THEN LazyAsyncRegistration_dispose(s, r)
  ELSE [s EXCEPT !.regs[r].remaining = IF @ > 0 THEN @ - 1 ELSE @,
                 !.regs[r].myDataQueue = Append(@, data)]

\* LazyAsyncRegistration.handler: the message resolves the oldest pending pull, or
\* is buffered when none is pending.
LazyAsyncRegistration_handler(s, r, data) ==
  IF s.regs[r].remaining = 0
  THEN LazyAsyncRegistration_dispose(s, r)
  ELSE LET s1 == IF s.regs[r].remaining > 0
                 THEN [s EXCEPT !.regs[r].remaining = @ - 1]
                 ELSE s
       IN IF Len(s1.regs[r].myPromiseQueue) > 0
          THEN [s1 EXCEPT !.regs[r].myPromiseQueue = Tail(@),
                          !.pulls[Head(s.regs[r].myPromiseQueue)] =
                             [@ EXCEPT !.state = "value", !.value = data]]
          ELSE [s1 EXCEPT !.regs[r].myDataQueue = Append(@, data)]

\* Mutant of LazyAsyncRegistration_next: every pull that waits registers again.
LazyAsyncRegistration_nextAlways(s, r) ==
  IF Len(s.regs[r].myDataQueue) > 0
  THEN [s EXCEPT !.regs[r].myDataQueue = Tail(@),
                 !.pulls = Append(@, Pull(r, "value", Head(s.regs[r].myDataQueue)))]
  ELSE IF s.regs[r].isDisposed
       THEN [s EXCEPT !.pulls = Append(@, Pull(r, "done", 0))]
       ELSE LET s1 == SubscriptionRegistry_set([s EXCEPT !.regs[r].isRegistered = TRUE],
                                               s.regs[r].bus, s.regs[r].topic, r)
            IN [s1 EXCEPT !.pulls = Append(@, Pull(r, "pending", 0)),
                          !.regs[r].myPromiseQueue = Append(@, Len(s.pulls) + 1)]

\* Mutant of LazyAsyncRegistration_next: the disposed flag is tested before the
\* buffer.
LazyAsyncRegistration_nextDisposedFirst(s, r) ==
  IF s.regs[r].isDisposed
  THEN [s EXCEPT !.pulls = Append(@, Pull(r, "done", 0))]
  ELSE IF Len(s.regs[r].myDataQueue) > 0
       THEN [s EXCEPT !.regs[r].myDataQueue = Tail(@),
                      !.pulls = Append(@, Pull(r, "value", Head(s.regs[r].myDataQueue)))]
       ELSE LET s1 == IF ~s.regs[r].isRegistered
                      THEN SubscriptionRegistry_set([s EXCEPT !.regs[r].isRegistered = TRUE],
                                                    s.regs[r].bus, s.regs[r].topic, r)
                      ELSE s
            IN [s1 EXCEPT !.pulls = Append(@, Pull(r, "pending", 0)),
                          !.regs[r].myPromiseQueue = Append(@, Len(s.pulls) + 1)]

\* LazyAsyncRegistration.next: the synchronous part of the async function.
LazyAsyncRegistration_next(s, r) ==
  IF Len(s.regs[r].myDataQueue) > 0
  THEN [s EXCEPT !.regs[r].myDataQueue = Tail(@),
                 !.pulls = Append(@, Pull(r, "value", Head(s.regs[r].myDataQueue)))]
  ELSE IF s.regs[r].isDisposed
       THEN [s EXCEPT !.pulls = Append(@, Pull(r, "done", 0))]
       ELSE LET s1 == IF ~s.regs[r].isRegistered
                      THEN SubscriptionRegistry_set([s EXCEPT !.regs[r].isRegistered = TRUE],
                                                    s.regs[r].bus, s.regs[r].topic, r)
                      ELSE s
            IN [s1 EXCEPT !.pulls = Append(@, Pull(r, "pending", 0)),
                          !.regs[r].myPromiseQueue = Append(@, Len(s.pulls) + 1)]

\* LazyAsyncRegistration.single: awaits next(); its promise resolves with the value
\* of a result that is not done and rejects with the disposed error otherwise.
LazyAsyncRegistration_single(s, r) ==
  LET s1 == LazyAsyncRegistration_next(s, r)
  IN [s1 EXCEPT !.pulls[Len(s1.pulls)].form = "single"]

\* while (this.myPromiseQueue.length > 0): every pending promise is settled.
SettleAll(s, r, state) ==
  [s EXCEPT !.regs[r].myPromiseQueue = <<>>,
            !.pulls = [i \in DOMAIN s.pulls |->
                         IF \E k \in DOMAIN s.regs[r].myPromiseQueue :
                              s.regs[r].myPromiseQueue[k] = i
                         THEN [s.pulls[i] EXCEPT !.state = state]
                         ELSE s.pulls[i]]]

\* LazyAsyncRegistration.return: dispose, resolve the pending promises as done.
LazyAsyncRegistration_return(s, r) ==
  SettleAll(LazyAsyncRegistration_dispose(s, r), r, "done")

\* LazyAsyncRegistration.throw: dispose, reject the pending promises, throw e.
LazyAsyncRegistration_throw(s, r) ==
  [SettleAll(LazyAsyncRegistration_dispose(s, r), r, "rejected") EXCEPT !.raised = "UserError"]

\* registration.handler(data) and registration.dispose(), of either class.
Registration_handler(s, r, data) ==
  IF s.regs[r].kind = "lazy"
  THEN LazyAsyncRegistration_handler(s, r, data)
  ELSE HandlerRegistration_handler(s, r, data)

Registration_dispose(s, r) ==
  IF s.regs[r].kind = "lazy"
  THEN LazyAsyncRegistration_dispose(s, r)
  ELSE HandlerRegistration_dispose(s, r)

\* ------------------------------------------------------------ MessageBusImpl

RECURSIVE publishMessage(_, _, _)

\* Mutant of checkDisposed: the check is missing.
checkDisposedNot(s, b) == s

\* MessageBusImpl.checkDisposed.
checkDisposed(s, b) ==
  IF s.myDisposed[b] THEN [s EXCEPT !.raised = "DisposedError"] ELSE s

\* Mutant of Enqueued: unshift instead of push.
EnqueuedFirst(s, b, task) ==
  LET s1 == [s EXCEPT !.myPublishQueue[b] = <<task>> \o @]
  IN IF ~s1.myPublishing[b]
     THEN [s1 EXCEPT !.myPublishing[b] = TRUE, !.microtasks = Append(@, b)]
     ELSE s1

\* Mutant of Enqueued: every publish schedules a drain.
EnqueuedScheduling(s, b, task) ==
  [s EXCEPT !.myPublishQueue[b] = Append(@, task),
            !.myPublishing[b] = TRUE,
            !.microtasks = Append(@, b)]

\* publishImpl, after checkDisposed: push the task and schedule the drain once.
Enqueued(s, b, task) ==
  LET s1 == [s EXCEPT !.myPublishQueue[b] = Append(@, task)]
  IN IF ~s1.myPublishing[b]
     THEN [s1 EXCEPT !.myPublishing[b] = TRUE, !.microtasks = Append(@, b)]
     ELSE s1

\* Mutant of publishImpl: the listeners are notified at every hop.
publishImplListening(s, b, topic, data, broadcast, listeners) ==
  LET s0 == checkDisposed(s, b)
      task == [topic |-> topic, data |-> data, broadcast |-> broadcast,
               listeners |-> TRUE]
  IN IF Failed(s0) THEN s0 ELSE Enqueued(s0, b, task)

\* MessageBusImpl.publishImpl.
publishImpl(s, b, topic, data, broadcast, listeners) ==
  LET s0 == checkDisposed(s, b)
      task == [topic |-> topic, data |-> data, broadcast |-> broadcast,
               listeners |-> listeners]
  IN IF Failed(s0) THEN s0 ELSE Enqueued(s0, b, task)

\* Mutant of publishToChildren: each child delivers now, inside this call, instead
\* of queueing the message on its own queue.
RECURSIVE publishToChildrenNow(_, _, _, _)
publishToChildrenNow(s, cs, topic, data) ==
  IF cs = <<>> \/ Failed(s) THEN s
  ELSE publishToChildrenNow(
         publishMessage(s, Head(cs), [topic |-> topic, data |-> data,
                                      broadcast |-> TRUE, listeners |-> FALSE]),
         Tail(cs), topic, data)

\* Mutant of publishToChildren: the children do not broadcast further.
RECURSIVE publishToChildrenOnly(_, _, _, _)
publishToChildrenOnly(s, cs, topic, data) ==
  IF cs = <<>> \/ Failed(s) THEN s
  ELSE publishToChildrenOnly(publishImpl(s, Head(cs), topic, data, FALSE, FALSE),
                             Tail(cs), topic, data)

\* publishMessage, case "children": for (const child of this.myChildren).
RECURSIVE publishToChildren(_, _, _, _)
publishToChildren(s, cs, topic, data) ==
  IF cs = <<>> \/ Failed(s) THEN s
  ELSE publishToChildren(publishImpl(s, Head(cs), topic, data, TRUE, FALSE),
                         Tail(cs), topic, data)

\* Mutant of publishToParent: the parent delivers now, inside this call.
publishToParentNow(s, b, topic, data) ==
  IF s.myParent[b] # NoBus
  THEN publishMessage(s, s.myParent[b], [topic |-> topic, data |-> data,
                                         broadcast |-> FALSE, listeners |-> FALSE])
  ELSE s

\* Mutant of publishToParent: the parent broadcasts further, to its own parent.
publishToParentRecursively(s, b, topic, data) ==
  IF s.myParent[b] # NoBus
  THEN publishImpl(s, s.myParent[b], topic, data, TRUE, FALSE)
  ELSE s

\* publishMessage, case "parent": this.myParent?.publishImpl(...).
publishToParent(s, b, topic, data) ==
  IF s.myParent[b] # NoBus
  THEN publishImpl(s, s.myParent[b], topic, data, FALSE, FALSE)
  ELSE s

\* publishMessage, if (broadcast) switch (topic.broadcastDirection).
Broadcast(s, b, task) ==
  IF ~task.broadcast THEN s
  ELSE CASE broadcastDirection(task.topic) = "children" ->
              publishToChildren(s, s.myChildren[b], task.topic, task.data)
         [] broadcastDirection(task.topic) = "parent" ->
              publishToParent(s, b, task.topic, task.data)

\* Mutant of notifyListeners: the listener added last is invoked first.
RECURSIVE notifyListenersReversed(_, _, _, _, _)
notifyListenersReversed(s, b, ls, task, registrationCount) ==
  IF ls = <<>> \/ Failed(s) THEN s
  ELSE notifyListenersReversed(
         Logged(s, Event("listener", b, ls[Len(ls)], task.data, registrationCount)),
         b, SubSeq(ls, 1, Len(ls) - 1), task, registrationCount)

\* publishMessage, for (const listener of this.myListeners).
RECURSIVE notifyListeners(_, _, _, _, _)
notifyListeners(s, b, ls, task, registrationCount) ==
  IF ls = <<>> \/ Failed(s) THEN s
  ELSE notifyListeners(Logged(s, Event("listener", b, Head(ls), task.data, registrationCount)),
                       b, Tail(ls), task, registrationCount)

\* Array.prototype.sort with (a, b) => a.priority - b.priority: stable, ascending.
RECURSIVE InsertByPriority(_, _, _)
InsertByPriority(sorted, r, rs) ==
  IF sorted = <<>> THEN <<r>>
  ELSE IF rs[Head(sorted)].priority <= rs[r].priority
       THEN <<Head(sorted)>> \o InsertByPriority(Tail(sorted), r, rs)
       ELSE <<r>> \o sorted

RECURSIVE SortedByPriority(_, _)
SortedByPriority(arr, rs) ==
  IF arr = <<>> THEN <<>>
  ELSE InsertByPriority(SortedByPriority(SubSeq(arr, 1, Len(arr) - 1), rs),
                        arr[Len(arr)], rs)

\* Mutant of sortRegistrations: the array is left in insertion order.
sortRegistrationsNot(arr, rs) == arr

\* publishMessage, registrations.sort(...).
sortRegistrations(arr, rs) == SortedByPriority(arr, rs)

\* Mutant of Caught: the error is rethrown as it is, not wrapped.
CaughtUnwrapped(s, b, data) ==
  IF ~Failed(s) THEN s
  ELSE IF ~s.myOptions[b].safePublishing
       THEN s
       ELSE Logged([s EXCEPT !.raised = "none"], Event("errorHandler", b, 0, data, 0))

\* Mutant of Caught: the error is rethrown whatever safePublishing is.
CaughtUnsafe(s, b, data) ==
  IF ~Failed(s) THEN s ELSE [s EXCEPT !.raised = "HandlerError"]

\* Mutant of Caught: the error goes to the errorHandler whatever safePublishing is.
CaughtSafe(s, b, data) ==
  IF ~Failed(s) THEN s
  ELSE Logged([s EXCEPT !.raised = "none"], Event("errorHandler", b, 0, data, 0))

\* publishMessage, the catch block around registration.handler(data): error(...)
\* throws a new error with e as its cause, errorHandler(e) receives e.
Caught(s, b, data) ==
  IF ~Failed(s) THEN s
  ELSE IF ~s.myOptions[b].safePublishing
       THEN [s EXCEPT !.raised = "HandlerError"]
       ELSE Logged([s EXCEPT !.raised = "none"], Event("errorHandler", b, 0, data, 0))

\* publishMessage, for (const registration of registrations): the array iterator
\* reads the live array at index i (1-based here) on every round.
RECURSIVE invokeRegistrations(_, _, _, _)
invokeRegistrations(s, b, task, i) ==
  LET arr == s.myRegistry[b][task.topic]
  IN IF Failed(s) \/ i > Len(arr) THEN s
     ELSE invokeRegistrations(
            Caught(Registration_handler(s, arr[i], task.data), b, task.data),
            b, task, i + 1)

\* MessageBusImpl.publishMessage.  The "dispatch" event marks the point where the
\* bus reads its registry for the message (const registrations = ...).
publishMessage(s, b, task) ==
  LET s1 == Broadcast(s, b, task)
      registrationCount == Len(s1.myRegistry[b][task.topic])
      s2 == IF Failed(s1) THEN s1
            ELSE Logged(s1, Event("dispatch", b, 0, task.data, registrationCount))
      s3 == IF task.listeners
            THEN notifyListeners(s2, b, s2.myListeners[b], task, registrationCount)
            ELSE s2
  IN IF Failed(s3) \/ registrationCount = 0 THEN s3
     ELSE invokeRegistrations(
            [s3 EXCEPT !.myRegistry[b][task.topic] = sortRegistrations(@, s3.regs)],
            b, task, 1)

\* drainPublishQueue, while (this.myPublishQueue.length > 0).
RECURSIVE drainLoop(_, _)
drainLoop(s, b) ==
  IF Failed(s) \/ s.myPublishQueue[b] = <<>> THEN s
  ELSE LET next == Head(s.myPublishQueue[b])
           s1 == [s EXCEPT !.myPublishQueue[b] = Tail(@)]
       IN drainLoop(publishMessage(s1, b, next), b)

\* MessageBusImpl.drainPublishQueue.
drainPublishQueue(s, b) ==
  LET s1 == IF ~s.myDisposed[b] THEN drainLoop(s, b) ELSE s
  IN IF Failed(s1) THEN s1 ELSE [s1 EXCEPT !.myPublishing[b] = FALSE]

\* subscribe(topic) without a callback.
NoHandler == "undefined"

\* MessageBusImpl.subscribeImpl: a HandlerRegistration is stored in the registry at
\* once, a LazyAsyncRegistration (no handler given) only by its first next().
subscribeImpl(s, b, topic, limit, priority, handler) ==
  LET s0 == checkDisposed(s, b)
      r == s.nRegs + 1
      beh == handler
      lazy == [kind |-> "lazy", bus |-> b, topic |-> topic, limit |-> limit,
               remaining |-> limit, priority |-> priority, isDisposed |-> FALSE,
               beh |-> "nop", isRegistered |-> FALSE, myDataQueue |-> <<>>,
               myPromiseQueue |-> <<>>]
      registration == [kind |-> "handler", bus |-> b, topic |-> topic, limit |-> limit,
                       remaining |-> limit, priority |-> priority, isDisposed |-> FALSE,
                       beh |-> beh, isRegistered |-> TRUE, myDataQueue |-> <<>>,
                       myPromiseQueue |-> <<>>]
  IN IF Failed(s0) THEN s0
     ELSE IF handler # NoHandler
          THEN SubscriptionRegistry_set([s0 EXCEPT !.nRegs = r, !.regs[r] = registration],
                                        b, topic, r)
          ELSE [s0 EXCEPT !.nRegs = r, !.regs[r] = lazy]

\* The options of createChildBus: each is "unset", "true" or "false".
OptionValues == {"unset", "true", "false"}
ChildOptions == [copyListeners : OptionValues, safePublishing : OptionValues]
NoOptions == [copyListeners |-> "unset", safePublishing |-> "unset"]

\* MessageBusImpl.createChildBus: the child copies the parent's listeners unless
\* copyListeners is false, and takes the parent's options unless given its own.
createChildBus(s, b, options) ==
  LET s0 == checkDisposed(s, b)
      childBus == s.nBuses + 1
      listeners == IF options.copyListeners = "false" THEN <<>> ELSE s.myListeners[b]
      safePublishing == IF options.safePublishing = "unset"
                        THEN s.myOptions[b].safePublishing
                        ELSE options.safePublishing = "true"
  IN IF Failed(s0) THEN s0
     ELSE [s0 EXCEPT !.nBuses = childBus,
                     !.myParent[childBus] = b,
                     !.myOptions[childBus] = [safePublishing |-> safePublishing],
                     !.myListeners[childBus] = listeners,
                     !.myChildren[b] = Append(@, childBus)]

\* MessageBusImpl.withLimit and withPriority: the builder they return holds the
\* limit and the priority that its subscribe() passes to subscribeImpl.
withLimit(s, b, limit) ==
  LET s0 == checkDisposed(s, b)
  IN IF Failed(s0) THEN s0
     ELSE IF limit > 0 THEN s0 ELSE [s0 EXCEPT !.raised = "AssertionError"]

withPriority(s, b, priority) == checkDisposed(s, b)

\* Set.delete and Set.add, on a set kept in insertion order.
SetDelete(set, x) == SelectSeq(set, LAMBDA y : y # x)
SetAdd(set, x) == IF \E i \in DOMAIN set : set[i] = x THEN set ELSE Append(set, x)
SetHas(set, x) == \E i \in DOMAIN set : set[i] = x

\* Mutant of addListener: the children share the set of their parent.
addListenerShared(s, b, listener) ==
  LET s0 == checkDisposed(s, b)
  IN IF Failed(s0) THEN s0
     ELSE [s0 EXCEPT !.myListeners =
             [x \in DOMAIN @ |-> IF x = b \/ s.myParent[x] = b
                                 THEN SetAdd(@[x], listener) ELSE @[x]]]

\* MessageBusImpl.addListener and removeListener.
addListener(s, b, listener) ==
  LET s0 == checkDisposed(s, b)
  IN IF Failed(s0) THEN s0 ELSE [s0 EXCEPT !.myListeners[b] = SetAdd(@, listener)]

removeListener(s, b, listener) ==
  LET s0 == checkDisposed(s, b)
  IN IF Failed(s0) THEN s0 ELSE [s0 EXCEPT !.myListeners[b] = SetDelete(@, listener)]

\* SubscriptionRegistry.values: a copy of all the arrays, flattened.
SubscriptionRegistry_values(s, b) ==
  s.myRegistry[b]["children"] \o s.myRegistry[b]["parent"]

\* dispose, for (const registration of this.myRegistry.values()).
RECURSIVE disposeRegistrations(_, _)
disposeRegistrations(s, rs) ==
  IF rs = <<>> THEN s
  ELSE disposeRegistrations(Registration_dispose(s, Head(rs)), Tail(rs))

\* Mutant of disposeChildren: the loop walks by index an array that shrinks as each
\* child removes itself, skipping every second child.
RECURSIVE disposeChildrenSkipping(_, _, _)
disposeChildrenSkipping(s, b, cs) ==
  IF cs = <<>> THEN s
  ELSE disposeChildrenSkipping(dispose(s, Head(cs)), b,
                               IF Len(cs) > 1 THEN Tail(Tail(cs)) ELSE <<>>)

\* dispose, for (const child of this.myChildren): the iterator of a Set visits the
\* entries in insertion order and passes over those deleted meanwhile.
RECURSIVE disposeChildren(_, _, _)
disposeChildren(s, b, cs) ==
  IF cs = <<>> THEN s
  ELSE IF SetHas(s.myChildren[b], Head(cs))
       THEN disposeChildren(dispose(s, Head(cs)), b, Tail(cs))
       ELSE disposeChildren(s, b, Tail(cs))

\* Mutant of dispose: a second call fails like any other call on a disposed bus.
disposeChecked(s, b) ==
  IF s.myDisposed[b] THEN [s EXCEPT !.raised = "DisposedError"]
  ELSE LET s1 == [s EXCEPT !.myDisposed[b] = TRUE]
           s2 == IF s.myParent[b] # NoBus
                 THEN [s1 EXCEPT !.myChildren[s.myParent[b]] = SetDelete(@, b)]
                 ELSE s1
           s3 == disposeRegistrations(s2, SubscriptionRegistry_values(s2, b))
           s4 == disposeChildren(s3, b, s3.myChildren[b])
       IN [s4 EXCEPT !.myChildren[b] = <<>>,
                     !.myRegistry[b] = [t \in Topics |-> <<>>],
                     !.myListeners[b] = <<>>]

\* Mutant of dispose: the parent keeps the disposed bus among its children.
disposeAttached(s, b) ==
  IF s.myDisposed[b] THEN s
  ELSE LET s1 == [s EXCEPT !.myDisposed[b] = TRUE]
           s3 == disposeRegistrations(s1, SubscriptionRegistry_values(s1, b))
           s4 == disposeChildren(s3, b, s3.myChildren[b])
       IN [s4 EXCEPT !.myChildren[b] = <<>>,
                     !.myRegistry[b] = [t \in Topics |-> <<>>],
                     !.myListeners[b] = <<>>]

\* MessageBusImpl.dispose.
dispose(s, b) ==
  IF s.myDisposed[b] THEN s
  ELSE LET s1 == [s EXCEPT !.myDisposed[b] = TRUE]
           s2 == IF s.myParent[b] # NoBus
                 THEN [s1 EXCEPT !.myChildren[s.myParent[b]] = SetDelete(@, b)]
                 ELSE s1
           s3 == disposeRegistrations(s2, SubscriptionRegistry_values(s2, b))
           s4 == disposeChildren(s3, b, s3.myChildren[b])
       IN [s4 EXCEPT !.myChildren[b] = <<>>,
                     !.myRegistry[b] = [t \in Topics |-> <<>>],
                     !.myListeners[b] = <<>>]

\* Mutant of publish: the message is dispatched inside the call.
publishNow(s, b, topic) ==
  LET data == Len(s.published) + 1
      s0 == checkDisposed(s, b)
      s1 == IF Failed(s0) THEN s0
            ELSE publishMessage(s0, b, [topic |-> topic, data |-> data,
                                        broadcast |-> TRUE, listeners |-> TRUE])
  IN IF Failed(s1) THEN s1
     ELSE [s1 EXCEPT !.published =
             Append(@, [bus |-> b, topic |-> topic, nBuses |-> s.nBuses, nRegs |-> s.nRegs,
                        queued |-> Len(s.myPublishQueue[b])])]

\* MessageBusImpl.publish: the message's data is its number in publish order.
publish(s, b, topic) ==
  LET data == Len(s.published) + 1
      s1 == publishImpl(s, b, topic, data, TRUE, TRUE)
  IN IF Failed(s1) THEN s1
     ELSE [s1 EXCEPT !.published =
             Append(@, [bus |-> b, topic |-> topic, nBuses |-> s.nBuses, nRegs |-> s.nRegs,
                        queued |-> Len(s.myPublishQueue[b])])]

\* ---------------------------------------------------------------- the steps

NoRegistration ==
  [kind |-> "none", bus |-> NoBus, topic |-> "children", limit |-> defaultLimit,
   remaining |-> defaultLimit, priority |-> defaultPriority, isDisposed |-> FALSE,
   beh |-> "nop", isRegistered |-> FALSE, myDataQueue |-> <<>>, myPromiseQueue |-> <<>>]

\* createMessageBus(options): one root bus.
InitBus(safePublishing) ==
  /\ nBuses = 1
  /\ myParent = [b \in Buses |-> NoBus]
  /\ myOptions = [b \in Buses |-> [safePublishing |-> safePublishing]]
  /\ myListeners = [b \in Buses |-> <<>>]
  /\ myRegistry = [b \in Buses |-> [t \in Topics |-> <<>>]]
  /\ myChildren = [b \in Buses |-> <<>>]
  /\ myPublishQueue = [b \in Buses |-> <<>>]
  /\ myPublishing = [b \in Buses |-> FALSE]
  /\ myDisposed = [b \in Buses |-> FALSE]
  /\ nRegs = 0
  /\ regs = [r \in RegIds |-> NoRegistration]
  /\ microtasks = <<>>
  /\ published = <<>>
  /\ log = <<>>
  /\ pulls = <<>>
  /\ disposeCalls = [bus |-> 0, reg |-> 0]
  /\ raised = "none"

\* createMessageBus(): safePublishing is false unless given.
Init == InitBus(FALSE)

CreateChildBus(b, options) ==
  /\ b <= nBuses
  /\ nBuses < MaxBuses
  /\ Install(createChildBus(St, b, options))

Subscribe(b, topic, limit, priority, handler) ==
  /\ b <= nBuses
  /\ nRegs < MaxRegs
  /\ Install(subscribeImpl(St, b, topic, limit, priority, handler))

Publish(b, topic) ==
  /\ b <= nBuses
  /\ Len(published) < MaxMsgs
  /\ Install(publish(St, b, topic))

\* bus.dispose().
DisposeBus(b) ==
  /\ b <= nBuses
  /\ myDisposed[b] => disposeCalls.bus < MaxDisposeCalls
  /\ Install(dispose([St EXCEPT !.disposeCalls.bus = IF myDisposed[b] THEN @ + 1 ELSE @], b))

\* subscription.dispose().
DisposeSubscription(r) ==
  /\ r <= nRegs
  /\ regs[r].isDisposed => disposeCalls.reg < MaxDisposeCalls
  /\ Install(Registration_dispose(
       IF regs[r].isDisposed
       THEN [St EXCEPT !.disposeCalls.reg = @ + 1]
       ELSE Logged(St, Event("dispose", regs[r].bus, r, Len(published), 0)), r))

\* subscription.next(), on a subscription made without a callback.
PullNext(r) ==
  /\ r <= nRegs
  /\ regs[r].kind = "lazy"
  /\ Len(pulls) < MaxPulls
  /\ Install(LazyAsyncRegistration_next(St, r))

\* subscription.single().
PullSingle(r) ==
  /\ r <= nRegs
  /\ regs[r].kind = "lazy"
  /\ Len(pulls) < MaxPulls
  /\ Install(LazyAsyncRegistration_single(St, r))

\* subscription.return(), as `break` in a for await loop calls it.
Return(r) ==
  /\ r <= nRegs
  /\ regs[r].kind = "lazy"
  /\ regs[r].isDisposed => disposeCalls.reg < MaxDisposeCalls
  /\ Install(LazyAsyncRegistration_return(
       [St EXCEPT !.disposeCalls.reg = IF regs[r].isDisposed THEN @ + 1 ELSE @], r))

\* subscription.throw(e).
Throw(r) ==
  /\ r <= nRegs
  /\ regs[r].kind = "lazy"
  /\ regs[r].isDisposed => disposeCalls.reg < MaxDisposeCalls
  /\ Install(LazyAsyncRegistration_throw(
       [St EXCEPT !.disposeCalls.reg = IF regs[r].isDisposed THEN @ + 1 ELSE @], r))

AddListener(b, listener) ==
  /\ b <= nBuses
  /\ Install(addListener(St, b, listener))

RemoveListener(b, listener) ==
  /\ b <= nBuses
  /\ Install(removeListener(St, b, listener))

WithLimit(b, limit) ==
  /\ b <= nBuses
  /\ Install(withLimit(St, b, limit))

WithPriority(b, priority) ==
  /\ b <= nBuses
  /\ Install(withPriority(St, b, priority))

\* The host runs the oldest microtask: () => this.drainPublishQueue().
RunMicrotask ==
  /\ microtasks # <<>>
  /\ Install(drainPublishQueue([St EXCEPT !.microtasks = Tail(@)], Head(microtasks)))

\* One bus: handlers with and without a limit.
Next ==
  \/ \E topic \in Topics, limit \in Limits :
       /\ nRegs < MaxSpecRegs
       /\ Subscribe(1, topic, limit, defaultPriority, "nop")
  \/ \E topic \in Topics : Publish(1, topic)
  \/ RunMicrotask

Spec == Init /\ [][Next]_vars

\* One bus and one topic: handlers of every priority.
NextPriority ==
  \/ \E priority \in Priorities :
       Subscribe(1, "children", defaultLimit, priority, "nop")
  \/ Publish(1, "children")
  \/ RunMicrotask

SpecPriority == Init /\ [][NextPriority]_vars

\* A tree of buses, built and subscribed to before the first message is published;
\* the handlers return, and the messages are of one topic.
NextTree(topic) ==
  \/ \E b \in Buses :
       /\ published = <<>>
       /\ CreateChildBus(b, NoOptions)
  \/ \E b \in Buses :
       /\ published = <<>>
       /\ nRegs < MaxSpecRegs
       /\ Subscribe(b, topic, defaultLimit, defaultPriority, "nop")
  \/ \E b \in Buses : Publish(b, topic)
  \/ RunMicrotask

NextChildren == NextTree("children")
SpecChildren == Init /\ [][NextChildren]_vars

NextParent == NextTree("parent")
SpecParent == Init /\ [][NextParent]_vars

\* No message was published and no bus disposed yet.
Building == published = <<>> /\ \A b \in Buses : ~myDisposed[b]

\* A tree of buses, built (child buses, subscriptions) before it is used; then messages are published on the root and buses are disposed, some of
\* them twice, at any moment.
NextDispose ==
  \/ \E b \in Buses :
       /\ Building
       /\ CreateChildBus(b, NoOptions)
  \/ \E b \in Buses :
       /\ Building
       /\ nRegs < MaxSpecRegs
       /\ Subscribe(b, "children", defaultLimit, defaultPriority, "nop")
  \/ \E b \in Buses : DisposeBus(b)
  \/ /\ Len(published) < MaxDisposeMsgs
     /\ Publish(1, "children")
  \/ RunMicrotask

SpecDispose == Init /\ [][NextDispose]_vars

\* A tree of buses on whose root messages are published; buses are disposed at any
\* moment, and every call of the API is made on the disposed ones.
NextDisposed ==
  \/ \E b \in Buses :
       /\ Building \/ myDisposed[b]
       /\ CreateChildBus(b, NoOptions)
  \/ \E b \in Buses : DisposeBus(b)
  \/ \E b \in Buses :
       /\ b = 1 \/ myDisposed[b]
       /\ Len(published) < MaxDisposeMsgs
       /\ Publish(b, "children")
  \/ RunMicrotask
  \/ \E b \in Buses, handler \in {"nop", NoHandler} :
       /\ myDisposed[b]
       /\ Subscribe(b, "children", defaultLimit, defaultPriority, handler)
  \/ \E b \in Buses, listener \in Listeners :
       /\ myDisposed[b]
       /\ AddListener(b, listener)
  \/ \E b \in Buses, listener \in Listeners :
       /\ myDisposed[b]
       /\ RemoveListener(b, listener)
  \/ \E b \in Buses, limit \in 1..MaxLimit :
       /\ myDisposed[b]
       /\ WithLimit(b, limit)
  \/ \E b \in Buses :
       /\ myDisposed[b]
       /\ WithPriority(b, defaultPriority)

SpecDisposed == Init /\ [][NextDisposed]_vars

\* A tree of buses with listeners and with subscriptions made without a callback,
\* which are pulled at any moment, also after their bus was disposed.
NextLazy ==
  \/ \E b \in Buses :
       /\ Building
       /\ CreateChildBus(b, NoOptions)
  \/ \E b \in Buses, limit \in Limits :
       /\ Building
       /\ nRegs < MaxSpecRegs
       /\ Subscribe(b, "children", limit, defaultPriority, NoHandler)
  \/ \E b \in Buses, listener \in Listeners :
       /\ Building
       /\ AddListener(b, listener)
  \/ \E r \in RegIds : PullNext(r)
  \/ \E b \in Buses : DisposeBus(b)
  \/ Publish(1, "children")
  \/ RunMicrotask

SpecLazy == Init /\ [][NextLazy]_vars

\* createMessageBus({ safePublishing }), either way.
InitErrors == \E safePublishing \in BOOLEAN : InitBus(safePublishing)

\* One bus: handlers of every priority that return or throw.
NextErrors ==
  \/ \E priority \in Priorities, handler \in Behaviours :
       /\ nRegs < MaxSpecRegs
       /\ Subscribe(1, "children", defaultLimit, priority, handler)
  \/ Publish(1, "children")
  \/ RunMicrotask

SpecErrors == InitErrors /\ [][NextErrors]_vars

\* One bus whose subscriptions, made before the first publication, are disposed
\* by their owners before, between and after the publications and the drains.
NextSubscription ==
  \/ \E limit \in Limits :
       /\ published = <<>>
       /\ nRegs < MaxSpecRegs
       /\ Subscribe(1, "children", limit, defaultPriority, "nop")
  \/ \E r \in RegIds : DisposeSubscription(r)
  \/ Publish(1, "children")
  \/ RunMicrotask

SpecSubscription == Init /\ [][NextSubscription]_vars

\* One bus: handlers without a limit are subscribed and disposed at any moment,
\* between publications and drains.
NextDispatch ==
  \/ \E topic \in Topics :
       /\ nRegs < MaxSpecRegs
       /\ Subscribe(1, topic, defaultLimit, defaultPriority, "nop")
  \/ \E r \in RegIds : ~regs[r].isDisposed /\ DisposeSubscription(r)
  \/ Publish(1, "children")
  \/ RunMicrotask

SpecDispatch == Init /\ [][NextDispatch]_vars

\* One bus: a subscription without a callback and then a handler, with and
\* without a limit, are subscribed before the first message; they are pulled,
\* disposed (also twice) and ended with return(), and the bus is disposed, between
\* publications and drains.
NextRegistry ==
  \/ \E limit \in Limits :
       /\ published = <<>>
       /\ nRegs = 0
       /\ Subscribe(1, "children", limit, defaultPriority, NoHandler)
  \/ \E limit \in Limits :
       /\ published = <<>>
       /\ nRegs = 1
       /\ Subscribe(1, "children", limit, defaultPriority, "nop")
  \/ \E r \in RegIds : PullNext(r)
  \/ \E r \in RegIds : DisposeSubscription(r)
  \/ \E r \in RegIds : ~regs[r].isDisposed /\ Return(r)
  \/ ~myDisposed[1] /\ DisposeBus(1)
  \/ Publish(1, "children")
  \/ RunMicrotask

SpecRegistry == Init /\ [][NextRegistry]_vars

\* One bus: handlers of every priority, without a limit, that return or publish a
\* further message from inside the dispatch, subscribed before the first message.
NextReentrant ==
  \/ \E handler \in {"nop", "publish"}, priority \in Priorities :
       /\ published = <<>>
       /\ nRegs < MaxSpecRegs
       /\ Subscribe(1, "children", defaultLimit, priority, handler)
  \/ Publish(1, "children")
  \/ RunMicrotask

SpecReentrant == Init /\ [][NextReentrant]_vars

\* A tree of buses built before it is used, with handlers of a topic that goes to
\* the parent: they return or dispose their own bus from inside the dispatch.
\* Buses are also disposed from outside, between publications and drains.
NextDisposing ==
  \/ \E b \in Buses :
       /\ Building
       /\ CreateChildBus(b, NoOptions)
  \/ \E b \in Buses, handler \in {"nop", "dispose"} :
       /\ Building
       /\ nRegs < MaxSpecRegs
       /\ Subscribe(b, "parent", defaultLimit, defaultPriority, handler)
  \/ \E b \in Buses : ~myDisposed[b] /\ Publish(b, "parent")
  \/ \E b \in Buses : ~myDisposed[b] /\ DisposeBus(b)
  \/ RunMicrotask

SpecDisposing == Init /\ [][NextDisposing]_vars

\* The consumer of a subscription pulls it in one way, with next() or with single().
PulledAs(r, form) == \A i \in DOMAIN pulls : pulls[i].reg = r => pulls[i].form = form

\* One bus with one subscription made without a callback, at any moment: the
\* consumer pulls with next() or single(), ends the sequence with return() or
\* throw(), disposes the subscription or the bus, between publications and drains.
NextPull ==
  \/ \E limit \in Limits :
       /\ nRegs = 0
       /\ Subscribe(1, "children", limit, defaultPriority, NoHandler)
  \/ \E r \in RegIds : PulledAs(r, "next") /\ PullNext(r)
  \/ \E r \in RegIds : PulledAs(r, "single") /\ PullSingle(r)
  \/ \E r \in RegIds : ~regs[r].isDisposed /\ Return(r)
  \/ \E r \in RegIds : ~regs[r].isDisposed /\ Throw(r)
  \/ \E r \in RegIds : ~regs[r].isDisposed /\ DisposeSubscription(r)
  \/ ~myDisposed[1] /\ DisposeBus(1)
  \/ Publish(1, "children")
  \/ RunMicrotask

SpecPull == Init /\ [][NextPull]_vars

\* One bus with one subscription made without a callback and read as a sequence:
\* the consumer only pulls with next(), the publisher only publishes.
NextSequence ==
  \/ \E limit \in Limits :
       /\ nRegs = 0
       /\ Subscribe(1, "children", limit, defaultPriority, NoHandler)
  \/ \E r \in RegIds : PullNext(r)
  \/ Publish(1, "children")
  \/ RunMicrotask

SpecSequence == Init /\ [][NextSequence]_vars

\* The three ways to give copyListeners to createChildBus.
CopyOptions == {o \in ChildOptions : o.safePublishing = "unset"}

\* Buses made with and without a copy of the listeners of their parent; listeners
\* are added to and removed from any bus at any moment.
NextCopy ==
  \/ \E b \in Buses, options \in CopyOptions : CreateChildBus(b, options)
  \/ \E b \in Buses, listener \in OrderedListeners : AddListener(b, listener)
  \/ \E b \in Buses, listener \in OrderedListeners : RemoveListener(b, listener)

SpecCopy == Init /\ [][NextCopy]_vars

\* A tree of buses with listeners, copied or not; then messages of either
\* direction are published on any bus.
NextListeners ==
  \/ \E b \in Buses, options \in CopyOptions :
       /\ Building
       /\ CreateChildBus(b, options)
  \/ \E b \in Buses, listener \in Listeners :
       /\ Building
       /\ AddListener(b, listener)
  \/ \E b \in Buses, topic \in Topics :
       /\ Len(published) < MaxListenerMsgs
       /\ Publish(b, topic)
  \/ RunMicrotask

SpecListeners == Init /\ [][NextListeners]_vars

\* One bus with handlers, subscribed before the first publication, and listeners,
\* added and removed at any moment between the publications and the drains.
NextOrder ==
  \/ \E listener \in OrderedListeners : AddListener(1, listener)
  \/ \E listener \in OrderedListeners : RemoveListener(1, listener)
  \/ \E limit \in Limits :
       /\ published = <<>>
       /\ nRegs < MaxSpecRegs
       /\ Subscribe(1, "children", limit, defaultPriority, "nop")
  \/ /\ Len(published) < MaxListenerMsgs
     /\ Publish(1, "children")
  \/ RunMicrotask

SpecOrder == Init /\ [][NextOrder]_vars

\* ------------------------------------------------------------------ claims

\* What the log holds.
Calls(r) == {i \in DOMAIN log : log[i].k = "handler" /\ log[i].reg = r}
CallsFor(r, d) == {i \in Calls(r) : log[i].msg = d}
HandlerCalls(b, d) ==
  {i \in DOMAIN log : log[i].k = "handler" /\ log[i].bus = b /\ log[i].msg = d}
Dispatches(b, d) ==
  {i \in DOMAIN log : log[i].k = "dispatch" /\ log[i].bus = b /\ log[i].msg = d}
\* Every event, of any kind, of message d on bus b.
EventsOf(b, d) == {i \in DOMAIN log : log[i].bus = b /\ log[i].msg = d}

\* The drain of b has run to its end and nothing is queued.
Quiescent(b) == ~myPublishing[b] /\ myPublishQueue[b] = <<>>
AllDrained == microtasks = <<>> /\ \A b \in 1..nBuses : Quiescent(b)

RECURSIVE Ancestors(_)
Ancestors(x) ==
  IF myParent[x] = NoBus THEN {} ELSE {myParent[x]} \cup Ancestors(myParent[x])
InSubtree(B, x) == x = B \/ B \in Ancestors(x)

\* No registration of r's bus and topic was given a limit.
AllUnlimited(r) ==
  \A q \in 1..nRegs :
    (regs[q].bus = regs[r].bus /\ regs[q].topic = regs[r].topic)
      => regs[q].limit = defaultLimit

C2_PublishOnlyEnqueues ==
  [][/\ (\E b \in Buses, topic \in Topics : Publish(b, topic))
          => /\ log' = log
             /\ raised' = "none"
             /\ \E b \in Buses :
                  /\ Len(myPublishQueue'[b]) = Len(myPublishQueue[b]) + 1
                  /\ myPublishing'[b]
                  /\ \A c \in Buses \ {b} : myPublishQueue'[c] = myPublishQueue[c]
     /\ log' # log => RunMicrotask]_vars

\* Two messages are queued behind each other and no handler has run, although one
\* is subscribed to their topic.
C2_Witness ==
  /\ Len(myPublishQueue[1]) = 2
  /\ log = <<>>
  /\ \E r \in 1..nRegs : regs[r].topic = myPublishQueue[1][1].topic
  /\ myPublishQueue[1][1].topic = myPublishQueue[1][2].topic

\* C3: a `children` message published on B is dispatched at most once by any bus
\* and only by buses of B's subtree; once all drains have run, B and every bus of
\* its subtree (that existed at the publish) has dispatched it exactly once, and so
\* has every handler of these buses.
C3_ChildrenSubtreeOnce ==
  \A d \in DOMAIN published :
    LET B == published[d].bus
    IN /\ \A x \in 1..nBuses :
            /\ Cardinality(Dispatches(x, d)) <= 1
            /\ Dispatches(x, d) # {} => InSubtree(B, x)
            /\ (AllDrained /\ InSubtree(B, x) /\ x <= published[d].nBuses)
                 => Cardinality(Dispatches(x, d)) = 1
       /\ \A r \in 1..nRegs :
            /\ Cardinality(CallsFor(r, d)) <= 1
            /\ CallsFor(r, d) # {} => InSubtree(B, regs[r].bus)
            /\ (AllDrained /\ InSubtree(B, regs[r].bus) /\ r <= published[d].nRegs)
                 => Cardinality(CallsFor(r, d)) = 1

\* A grandchild of the publishing bus has dispatched the message to a handler.
C3_Witness ==
  /\ AllDrained
  /\ \E d \in DOMAIN published, x \in 1..nBuses :
       /\ myParent[x] # NoBus
       /\ myParent[myParent[x]] = published[d].bus
       /\ HandlerCalls(x, d) # {}

\* C4, as claimed: the handlers of B observe a `children` message only after the
\* handlers of every descendant of B have observed it.
C4_LocalAfterSubtree ==
  \A d \in DOMAIN published :
    \A x \in 1..nBuses :
      (x # published[d].bus /\ InSubtree(published[d].bus, x)) =>
        \A i \in HandlerCalls(published[d].bus, d), j \in HandlerCalls(x, d) : j < i

\* C4, amended: B has finished its own dispatch of a `children` message (all its
\* handlers have observed it) before any descendant of B starts dispatching it.
C4_LocalBeforeSubtree ==
  \A d \in DOMAIN published :
    \A x \in 1..nBuses :
      (x # published[d].bus /\ InSubtree(published[d].bus, x)) =>
        \A i \in EventsOf(published[d].bus, d), j \in EventsOf(x, d) : i < j

\* A handler of B and a handler of a descendant of B have observed the message.
C4_Witness ==
  \E d \in DOMAIN published, x \in 1..nBuses :
    /\ x # published[d].bus
    /\ InSubtree(published[d].bus, x)
    /\ HandlerCalls(published[d].bus, d) # {}
    /\ HandlerCalls(x, d) # {}

\* C5: a message is delivered first to the handlers of the bus where publish() was
\* called, and then top-down: the handlers of every bus are invoked after those of
\* its parent.
C5_TopDown ==
  \A i, j \in DOMAIN log :
    (/\ log[i].k = "handler"
     /\ log[j].k = "handler"
     /\ log[i].msg = log[j].msg
     /\ \/ log[i].bus = myParent[log[j].bus]
        \/ (log[i].bus = published[log[i].msg].bus /\ log[j].bus # log[i].bus))
      => i < j

\* The handlers of a child and of a grandchild of the publishing bus were invoked.
C5_Witness ==
  \E d \in DOMAIN published, x \in 1..nBuses :
    /\ myParent[x] # NoBus
    /\ myParent[myParent[x]] = published[d].bus
    /\ HandlerCalls(x, d) # {}
    /\ HandlerCalls(myParent[x], d) # {}

\* C6: a `parent` message published on C is dispatched at most once by any bus and
\* only by C and by C's immediate parent; once all drains have run, C and its
\* parent have dispatched it exactly once, to each of their handlers.
C6_ParentOnce ==
  \A d \in DOMAIN published :
    LET C == published[d].bus
        Reached(x) == x = C \/ x = myParent[C]
    IN /\ \A x \in 1..nBuses :
            /\ Cardinality(Dispatches(x, d)) <= 1
            /\ Dispatches(x, d) # {} => Reached(x)
            /\ (AllDrained /\ Reached(x)) => Cardinality(Dispatches(x, d)) = 1
       /\ \A r \in 1..nRegs :
            /\ Cardinality(CallsFor(r, d)) <= 1
            /\ CallsFor(r, d) # {} => Reached(regs[r].bus)
            /\ (AllDrained /\ Reached(regs[r].bus) /\ r <= published[d].nRegs)
                 => Cardinality(CallsFor(r, d)) = 1

\* The parent of C has dispatched the message to a handler; C has a grandparent,
\* with a handler, and a sibling.
C6_Witness ==
  /\ AllDrained
  /\ \E d \in DOMAIN published :
       LET C == published[d].bus
       IN /\ myParent[C] # NoBus
          /\ HandlerCalls(myParent[C], d) # {}
          /\ \/ /\ myParent[myParent[C]] # NoBus
                /\ \E r \in 1..published[d].nRegs : regs[r].bus = myParent[myParent[C]]
             \/ \E x \in 1..published[d].nBuses : x # C /\ myParent[x] = myParent[C]

\* C7, as claimed: the handlers of the immediate parent run before the handlers of
\* C observe a `parent` message published on C.
C7_ParentBeforeLocal ==
  \A d \in DOMAIN published :
    LET C == published[d].bus
    IN myParent[C] # NoBus =>
         \A i \in HandlerCalls(myParent[C], d), j \in HandlerCalls(C, d) : i < j

\* C7, amended: C has finished its own dispatch of the message (all its handlers
\* have observed it) before its immediate parent starts dispatching it.
C7_LocalBeforeParent ==
  \A d \in DOMAIN published :
    LET C == published[d].bus
    IN myParent[C] # NoBus =>
         \A i \in EventsOf(C, d), j \in EventsOf(myParent[C], d) : i < j

\* A handler of C and a handler of C's parent have observed the message.
C7_Witness ==
  \E d \in DOMAIN published :
    /\ myParent[published[d].bus] # NoBus
    /\ HandlerCalls(published[d].bus, d) # {}
    /\ HandlerCalls(myParent[published[d].bus], d) # {}

\* C8: the handler of the immediate parent is invoked after the handler of C, the
\* bus where publish() was called.
C8_ParentHandlerAfter ==
  \A i, j \in DOMAIN log :
    (/\ log[i].k = "handler"
     /\ log[j].k = "handler"
     /\ log[i].msg = log[j].msg
     /\ log[i].bus = published[log[i].msg].bus
     /\ log[j].bus = myParent[log[i].bus])
      => i < j

\* Both handlers were invoked and all drains have run.
C8_Witness ==
  /\ AllDrained
  /\ \E d \in DOMAIN published, r, q \in 1..nRegs :
       /\ regs[r].bus = published[d].bus
       /\ regs[q].bus = myParent[regs[r].bus]
       /\ CallsFor(r, d) # {}
       /\ CallsFor(q, d) # {}

\* r is invoked before q when both are registered: lower priority value first,
\* subscription order among equal priorities.
InvokedBefore(r, q) ==
  \/ regs[r].priority < regs[q].priority
  \/ regs[r].priority = regs[q].priority /\ r < q

\* C9: when a message is dispatched on a bus, every registration of its topic is
\* invoked, in ascending priority value and, among equal priorities, in the order
\* of subscription; for the first message and for every later one.
C9_PriorityOrder ==
  /\ \A i, j \in DOMAIN log :
       (/\ i < j
        /\ log[i].k = "handler"
        /\ log[j].k = "handler"
        /\ log[i].bus = log[j].bus
        /\ log[i].msg = log[j].msg)
         => InvokedBefore(log[i].reg, log[j].reg)
  /\ \A i \in DOMAIN log :
       log[i].k = "dispatch" =>
         Cardinality(HandlerCalls(log[i].bus, log[i].msg)) = log[i].count

\* Priorities 2, 1, 0 subscribed as 1, 2, 3 were invoked as 3, 2, 1, for a first
\* and for a later message.
C9_Witness ==
  /\ nRegs = 3
  /\ regs[1].priority = 2 /\ regs[2].priority = 1 /\ regs[3].priority = 0
  /\ \A d \in 1..2 :
       \E i \in CallsFor(3, d), j \in CallsFor(2, d), k \in CallsFor(1, d) :
         i < j /\ j < k

\* C10: the callback of a registration with limit n >= 1 is invoked at most n
\* times, and never twice for one message.
C10_LimitCapsCalls ==
  \A r \in 1..nRegs :
    regs[r].limit >= 1 =>
      /\ Cardinality(Calls(r)) <= regs[r].limit
      /\ \A d \in DOMAIN published : Cardinality(CallsFor(r, d)) <= 1

\* A handler with limit 1 was invoked for one message; a second message of its
\* topic was dispatched afterwards, to no call of it.
C10_Witness ==
  \E r \in 1..nRegs :
    /\ regs[r].limit = 1
    /\ Cardinality(Calls(r)) = 1
    /\ \E i \in Calls(r), j \in DOMAIN log :
         /\ i < j
         /\ log[j].k = "dispatch"
         /\ log[j].bus = regs[r].bus
         /\ published[log[j].msg].topic = regs[r].topic
         /\ log[j].msg # log[i].msg

\* r is in the array of its topic in the registry of its bus.
InRegistry(r) ==
  \E i \in DOMAIN myRegistry[regs[r].bus][regs[r].topic] :
    myRegistry[regs[r].bus][regs[r].topic][i] = r

\* C11: a registration with a limit whose remaining count has reached zero is
\* disposed: once the invocation that consumed its last delivery is over, its
\* disposed flag is set and it is no longer in the registry of its bus.
C11_DisposedAtZero ==
  \A r \in 1..nRegs :
    (regs[r].limit >= 1 /\ regs[r].remaining = 0)
      => (regs[r].isDisposed /\ ~InRegistry(r))

\* Everything but the outcome of the last call and the count of repeated disposals.
BusState ==
  <<nBuses, myParent, myOptions, myListeners, myRegistry, myChildren, myPublishQueue,
    myPublishing, myDisposed, nRegs, regs, microtasks, published, log, pulls>>

\* C12: when dispose() on bus B returns, B and every descendant of B is disposed,
\* and every registration that was stored in the registry of one of these buses
\* has its disposed flag set.
C12_DisposeCascades ==
  [][\A b \in Buses :
       DisposeBus(b) =>
         /\ \A x \in 1..nBuses : InSubtree(b, x) => myDisposed'[x]
         /\ \A r \in 1..nRegs :
              (InRegistry(r) /\ InSubtree(b, regs[r].bus)) => regs'[r].isDisposed]_vars

\* The root, a child and a grandchild are disposed, and so are two registrations
\* that were stored below the root.
C12_Witness ==
  /\ myDisposed[1]
  /\ \E x, y \in 2..nBuses :
       /\ myParent[x] = 1 /\ myParent[y] = x
       /\ myDisposed[x] /\ myDisposed[y]
  /\ \E r, q \in 1..nRegs :
       /\ r # q
       /\ regs[r].bus # 1
       /\ regs[r].isDisposed /\ regs[q].isDisposed

\* C13: on a disposed bus publish, subscribe, createChildBus, addListener,
\* removeListener, withLimit and withPriority fail with the disposed error, and the
\* failing call changes nothing: queue, drain flag, registry, listeners, children
\* and everything else stay as they were.
C13_DisposedCallsFail ==
  [][\A b \in Buses :
       (/\ myDisposed[b]
        /\ \/ \E topic \in Topics : Publish(b, topic)
           \/ \E topic \in Topics, limit \in Limits, handler \in {"nop", NoHandler} :
                Subscribe(b, topic, limit, defaultPriority, handler)
           \/ CreateChildBus(b, NoOptions)
           \/ \E listener \in Listeners : AddListener(b, listener)
           \/ \E listener \in Listeners : RemoveListener(b, listener)
           \/ \E limit \in 1..MaxLimit : WithLimit(b, limit)
           \/ WithPriority(b, defaultPriority))
         => (raised' = "DisposedError" /\ UNCHANGED <<BusState, disposeCalls>>)]_vars

\* A call has failed with the disposed error; the root was disposed with a message
\* in its queue, and a child of it is disposed as well.
C13_Witness ==
  /\ raised = "DisposedError"
  /\ myDisposed[1]
  /\ myPublishQueue[1] # <<>>
  /\ myPublishing[1]
  /\ \E x \in 2..nBuses : myParent[x] = 1 /\ myDisposed[x]

\* C14: dispose() on a bus that is disposed already returns without error and
\* changes no state, of that bus or of any other.
C14_DisposeIdempotent ==
  [][\A b \in Buses :
       (myDisposed[b] /\ DisposeBus(b)) => (raised' = "none" /\ UNCHANGED BusState)]_vars

\* dispose() was called on a disposed bus, a child whose parent is in use, with a
\* registration and a queued message.
C14_Witness ==
  /\ disposeCalls.bus >= 1
  /\ raised = "none"
  /\ \E b \in 2..nBuses :
       /\ myDisposed[b]
       /\ ~myDisposed[myParent[b]]
       /\ myPublishQueue[myParent[b]] # <<>>
       /\ \E r \in 1..nRegs : regs[r].bus = myParent[b] /\ InRegistry(r)

\* C15: a disposed bus has an empty registry, an empty listener set and an empty
\* children set, in every reachable state, also after a subscription made on it
\* without a callback is pulled for the first time.
C15_DisposedBusEmpty ==
  \A b \in 1..nBuses :
    myDisposed[b] =>
      /\ \A topic \in Topics : myRegistry[b][topic] = <<>>
      /\ myListeners[b] = <<>>
      /\ myChildren[b] = <<>>

\* A call of a callback that throws.
ThrowingCall(e) == e.k = "handler" /\ regs[e.reg].beh = "throw"

\* C16, as claimed: with safePublishing false, publish(topic) itself raises the
\* error that wraps what a handler subscribed to the topic throws.
C16_ThrowsInPublish ==
  [][\A b \in Buses, topic \in Topics :
       (/\ Publish(b, topic)
        /\ ~myOptions[b].safePublishing
        /\ \E r \in 1..nRegs :
             /\ InRegistry(r)
             /\ regs[r].bus = b /\ regs[r].topic = topic /\ regs[r].beh = "throw")
         => raised' = "HandlerError"]_vars

\* C16, amended: with safePublishing false, publish(topic) returns normally; the
\* error that wraps what the handler throws is raised by the deferred drain that
\* dispatches the message, exactly when a handler has thrown in it.
C16_ThrowsInDrain ==
  [][/\ (\E b \in Buses, topic \in Topics : Publish(b, topic)) => raised' = "none"
     /\ raised' = "HandlerError" <=>
          \E i \in (Len(log) + 1)..Len(log') :
            ThrowingCall(log'[i]) /\ ~myOptions[log'[i].bus].safePublishing
     /\ raised' # "none" => RunMicrotask]_vars

\* The drain of a published message has raised the wrapping error.
C16_Witness ==
  /\ raised = "HandlerError"
  /\ ~myOptions[1].safePublishing
  /\ published # <<>>
  /\ ThrowingCall(log[Len(log)])

\* C17: with safePublishing true, neither publish nor the drain raises; every call
\* of a handler that throws is followed at once by one call of the errorHandler,
\* which is called on no other occasion; and every registration of the topic is
\* invoked for the message, those after the throwing one included.
C17_SafePublishing ==
  /\ myOptions[1].safePublishing => raised = "none"
  /\ \A i \in DOMAIN log :
       /\ (ThrowingCall(log[i]) /\ myOptions[log[i].bus].safePublishing)
            => /\ i < Len(log)
               /\ log[i + 1] = Event("errorHandler", log[i].bus, 0, log[i].msg, 0)
       /\ log[i].k = "errorHandler"
            => /\ i > 1
               /\ ThrowingCall(log[i - 1])
               /\ log[i - 1].bus = log[i].bus
               /\ log[i - 1].msg = log[i].msg
       /\ (log[i].k = "dispatch" /\ myOptions[log[i].bus].safePublishing)
            => Cardinality(HandlerCalls(log[i].bus, log[i].msg)) = log[i].count

\* A handler threw, the errorHandler was called, and the next registration was
\* invoked for the same message.
C17_Witness ==
  /\ myOptions[1].safePublishing
  /\ \E i \in DOMAIN log :
       /\ ThrowingCall(log[i])
       /\ i + 2 <= Len(log)
       /\ log[i + 1].k = "errorHandler"
       /\ log[i + 2].k = "handler"
       /\ log[i + 2].msg = log[i].msg
       /\ ~ThrowingCall(log[i + 2])

\* C18: with safePublishing false, after a handler has thrown for a message no
\* later registration is invoked for that message on that bus, and the
\* errorHandler is never called.
C18_AbortsDispatch ==
  \A i \in DOMAIN log :
    /\ (ThrowingCall(log[i]) /\ ~myOptions[log[i].bus].safePublishing)
         => \A j \in DOMAIN log :
              j > i => ~(log[j].bus = log[i].bus /\ log[j].msg = log[i].msg)
    /\ log[i].k = "errorHandler" => myOptions[log[i].bus].safePublishing

\* A handler threw for a message while a registration that comes later in
\* priority order was in the registry, and that one was not invoked.
C18_Witness ==
  /\ ~myOptions[1].safePublishing
  /\ \E i \in DOMAIN log, q \in 1..nRegs :
       /\ ThrowingCall(log[i])
       /\ InRegistry(q)
       /\ q <= published[log[i].msg].nRegs
       /\ regs[q].bus = log[i].bus
       /\ InvokedBefore(log[i].reg, q)
       /\ CallsFor(q, log[i].msg) = {}

\* C19: a bus that is not disposed and has its draining flag set or messages in its
\* queue has a drain scheduled, so that the flag is cleared and the messages are
\* dispatched in the end, also after a handler has thrown during a drain.
C19_DrainRecovers ==
  \A b \in 1..nBuses :
    (~myDisposed[b] /\ (myPublishing[b] \/ myPublishQueue[b] # <<>>))
      => \E i \in DOMAIN microtasks : microtasks[i] = b

\* C20: dispose() on a handler registration sets its disposed flag and removes it
\* from the registry without error; dispose() on a disposed one changes nothing;
\* and once disposed, the callback is not invoked again, whether the message was
\* published before the dispose and not yet drained, or after it.
C20_SubscriptionDisposed ==
  [][\A r \in RegIds :
       /\ DisposeSubscription(r)
            => (regs'[r].isDisposed /\ ~InRegistry(r)' /\ raised' = "none")
       /\ (regs[r].isDisposed /\ DisposeSubscription(r)) => UNCHANGED BusState
       /\ (r <= nRegs /\ regs[r].isDisposed)
            => (Calls(r)' = Calls(r) /\ regs'[r].isDisposed /\ ~InRegistry(r)')]_vars

\* A subscription without limit was disposed, twice, between the publication of a
\* first message and its drain; that message and one published after the dispose
\* were dispatched to another registration and not to the disposed one.
C20_Witness ==
  /\ disposeCalls.reg >= 1
  /\ \E r, q \in 1..nRegs, i \in DOMAIN log :
       /\ log[i] = Event("dispose", 1, r, 1, 0)
       /\ regs[r].limit = defaultLimit
       /\ regs[r].isDisposed
       /\ r # q
       /\ \A d \in 1..2 :
            /\ d <= Len(published)
            /\ \E j \in Dispatches(1, d) : j > i
            /\ CallsFor(q, d) # {}
            /\ CallsFor(r, d) = {}

\* The pulls made on a subscription, and its entries in the registry of its bus.
PullsOf(r) == {i \in DOMAIN pulls : pulls[i].reg = r}
EntriesOf(r) ==
  Cardinality({i \in DOMAIN myRegistry[regs[r].bus][regs[r].topic] :
                 myRegistry[regs[r].bus][regs[r].topic][i] = r})
IsLazy(r) == r <= nRegs /\ regs[r].kind = "lazy"

\* C21: a subscription made without a callback that was never pulled has no entry
\* in the registry and buffers nothing; the first pull (next or single) of one
\* that is not disposed inserts exactly one entry; a further pull inserts none,
\* so the registry never holds two entries of one subscription.
C21_LazyRegistration ==
  [][\A r \in RegIds :
       /\ (IsLazy(r) /\ PullsOf(r) = {})'
            => (EntriesOf(r) = 0 /\ regs[r].myDataQueue = <<>>)'
       /\ IsLazy(r)' => (EntriesOf(r) <= 1)'
       /\ (IsLazy(r) /\ (PullNext(r) \/ PullSingle(r)))
            => /\ (PullsOf(r) = {} /\ ~regs[r].isDisposed) => EntriesOf(r)' = 1
               /\ PullsOf(r) # {} => EntriesOf(r)' <= EntriesOf(r)]_vars

\* Two pulls are outstanding at once on a subscription that has one entry, and a
\* message was published before the first pull.
C21_Witness ==
  \E r \in 1..nRegs :
    /\ regs[r].kind = "lazy"
    /\ Len(regs[r].myPromiseQueue) >= 2
    /\ EntriesOf(r) = 1
    /\ \E d \in DOMAIN published : Dispatches(1, d) # {}

\* C22: no pull is pending on a disposed registration: disposal by an exhausted
\* limit, by dispose() of the subscription or of its bus, by return() or by
\* throw() settles every outstanding pull.
C22_DisposedSettles ==
  \A i \in DOMAIN pulls : regs[pulls[i].reg].isDisposed => pulls[i].state # "pending"

\* The values a subscription has handed out or holds in its buffer.
ValuePulls(r) == {i \in PullsOf(r) : pulls[i].state = "value"}

\* C23: a subscription with limit n hands out at most n values, and once it has
\* been disposed after the n-th value the consumer's pull returns the finished
\* result instead of waiting for ever.
C23_FiniteSequence ==
  \A r \in 1..nRegs :
    (regs[r].kind = "lazy" /\ regs[r].limit > 0)
      => /\ Cardinality(ValuePulls(r)) + Len(regs[r].myDataQueue) <= regs[r].limit
         /\ (regs[r].isDisposed /\ Cardinality(ValuePulls(r)) = regs[r].limit)
              => \A i \in PullsOf(r) : pulls[i].state # "pending"

\* The values of a subscription in the order the consumer gets them: those its
\* pulls returned, in the order of the pulls, then those still in the buffer.
Values(r) ==
  LET Returned(p) == p.reg = r /\ p.state = "value"
      returned == SelectSeq(pulls, Returned)
  IN [i \in 1..Len(returned) |-> returned[i].value] \o regs[r].myDataQueue

\* The messages a drain of the bus is about to dispatch for the topic, in order.
QueuedData(b, topic) ==
  LET ForTopic(task) == task.topic = topic
      tasks == SelectSeq(myPublishQueue[b], ForTopic)
  IN [i \in 1..Len(tasks) |-> tasks[i].data]

\* Those of them that a registration with `remaining` deliveries left receives.
Delivered(b, r) ==
  LET queued == QueuedData(b, regs[r].topic)
  IN IF regs[r].remaining < 0 \/ regs[r].remaining >= Len(queued)
     THEN queued
     ELSE SubSeq(queued, 1, regs[r].remaining)

\* C24: the values the pulls of a registered subscription return are exactly the
\* messages dispatched to it, in dispatch order and each once: a drain extends
\* the sequence of values by the messages it dispatches to the registration, no
\* other step changes it, and a settled pull keeps its result.
C24_PullOrder ==
  [][\A r \in RegIds : IsLazy(r) =>
       /\ \A i \in DOMAIN pulls : pulls[i].state # "pending" => pulls'[i] = pulls[i]
       /\ Values(r)' =
            IF /\ RunMicrotask
               /\ Head(microtasks) = regs[r].bus
               /\ ~myDisposed[regs[r].bus]
               /\ InRegistry(r)
            THEN Values(r) \o Delivered(regs[r].bus, r)
            ELSE Values(r)]_vars

\* Two pulls returned the two dispatched messages, each the message of its rank;
\* the first pull had to wait for its message.
C24_Witness ==
  \E r \in 1..nRegs :
    /\ regs[r].kind = "lazy"
    /\ Len(pulls) >= 2
    /\ pulls[1] = [reg |-> r, state |-> "value", value |-> 1, form |-> "next"]
    /\ pulls[2] = [reg |-> r, state |-> "value", value |-> 2, form |-> "next"]
    /\ Cardinality(Dispatches(1, 2)) = 1
    /\ published[1].nRegs = 1

\* C25: the buffer of undelivered values and the queue of outstanding pulls of a
\* subscription are never both non-empty.
C25_BufferOrWaiters ==
  \A r \in 1..nRegs :
    regs[r].kind = "lazy" => (regs[r].myDataQueue = <<>> \/ regs[r].myPromiseQueue = <<>>)

\* Each side has been non-empty: a value is buffered after a pull had to wait
\* and was resolved.
C25_Witness ==
  \E r \in 1..nRegs :
    /\ regs[r].kind = "lazy"
    /\ regs[r].myDataQueue # <<>>
    /\ \E i \in PullsOf(r) : pulls[i].state = "value" /\ pulls[i].value < Head(regs[r].myDataQueue)
    /\ regs[r].isDisposed

\* The calls of the listeners of bus b for message d, in the order they were made.
ListenerCallsIn(lg, b, d) ==
  LET Called(e) == e.k = "listener" /\ e.bus = b /\ e.msg = d
  IN SelectSeq(lg, Called)
ListenerCalls(b, d) == ListenerCallsIn(log, b, d)

\* The positions in a log of the events of one kind of bus b for message d.
EventsIn(lg, k, b, d) == {i \in DOMAIN lg : lg[i].k = k /\ lg[i].bus = b /\ lg[i].msg = d}

\* C26: a listener is invoked only on the bus where the message was published, and
\* there every listener of the bus is invoked once for the message; the buses the
\* message reaches by propagation invoke none of theirs.
C26_ListenersAtOrigin ==
  \A d \in DOMAIN published, x \in 1..nBuses :
    LET calls == ListenerCalls(x, d)
    IN IF x = published[d].bus /\ Dispatches(x, d) # {}
       THEN [i \in 1..Len(calls) |-> calls[i].reg] = myListeners[x]
       ELSE calls = <<>>

\* A bus with listeners copied from the publishing bus has dispatched the message
\* it received by propagation, and the publishing bus has invoked its listeners.
C26_Witness ==
  \E d \in DOMAIN published, x \in 1..nBuses :
    /\ x # published[d].bus
    /\ Dispatches(x, d) # {}
    /\ myListeners[x] # <<>>
    /\ myListeners[x] = myListeners[published[d].bus]
    /\ ListenerCalls(published[d].bus, d) # <<>>

\* C27: when a message is dispatched on the bus it was published on, the listeners
\* of the bus are invoked in the order they were added, before every handler of
\* the message, and each with the number of registrations the registry holds for
\* the topic at that moment.
C27_ListenersFirst ==
  [][(microtasks # <<>> /\ ~myDisposed[Head(microtasks)] /\ RunMicrotask) =>
       LET b == Head(microtasks)
       IN \A k \in DOMAIN myPublishQueue[b] :
            LET task == myPublishQueue[b][k]
                d == task.data
                calls == ListenerCallsIn(log', b, d)
            IN task.listeners =>
                 /\ [i \in 1..Len(calls) |-> calls[i].reg] = myListeners[b]
                 /\ \A i \in EventsIn(log', "listener", b, d) :
                      /\ \A j \in EventsIn(log', "handler", b, d) : i < j
                      /\ \A j \in EventsIn(log', "dispatch", b, d) :
                           j < i /\ log'[j].count = log'[i].count
                      /\ log'[i].count >= Cardinality(EventsIn(log', "handler", b, d))
                      /\ k = 1 => log'[i].count = Len(myRegistry[b][task.topic])]_vars

\* Two listeners, the second one added first, were invoked in that order and
\* before the handlers, with the count of the two registrations.
C27_Witness ==
  \E i \in DOMAIN log :
    /\ i + 2 <= Len(log)
    /\ log[i].k = "listener" /\ log[i].reg = 2 /\ log[i].count = 2
    /\ log[i + 1].k = "listener" /\ log[i + 1].reg = 1 /\ log[i + 1].count = 2
    /\ log[i + 2].k = "handler"
    /\ Cardinality(HandlerCalls(1, log[i].msg)) = 2

\* C28: createChildBus gives the child a copy of the listeners of the parent, or
\* none with copyListeners false, and leaves the listeners of every other bus as
\* they are; addListener and removeListener change the listeners of their own bus
\* only.
C28_ListenersCopied ==
  [][/\ \A b \in Buses, options \in CopyOptions :
          (nBuses' = nBuses + 1 /\ myParent'[nBuses'] = b /\ CreateChildBus(b, options))
            => /\ myListeners'[nBuses + 1] =
                    IF options.copyListeners = "false" THEN <<>> ELSE myListeners[b]
               /\ \A x \in 1..nBuses : myListeners'[x] = myListeners[x]
     /\ \A b \in Buses, listener \in OrderedListeners :
          (/\ myListeners'[b] # myListeners[b]
           /\ (AddListener(b, listener) \/ RemoveListener(b, listener)))
            => \A x \in Buses \ {b} : myListeners'[x] = myListeners[x]]_vars

\* A child has listeners and its parent has others: the child holds the listener
\* the parent had and has removed, the parent one added since.
C28_Witness ==
  \E x \in 2..nBuses :
    /\ myListeners[x] # <<>>
    /\ myListeners[myParent[x]] # <<>>
    /\ \A i \in DOMAIN myListeners[x] : ~SetHas(myListeners[myParent[x]], myListeners[x][i])

\* The positions in a log of the events of bus b.
EventsOn(lg, b) == {i \in DOMAIN lg : lg[i].bus = b}

\* C29: dispose() on a child bus removes it from the children of its parent and
\* leaves every bus outside its subtree as it was, not disposed and with the same
\* registry and registrations; no message is dispatched on a disposed bus, and a
\* publication on a bus that is not disposed, or its drain, does not fail.
C29_ChildDisposedAlone ==
  [][/\ \A b \in Buses :
          (/\ b <= nBuses
           /\ ~myDisposed[b] /\ myDisposed'[b]
           /\ myParent[b] # NoBus
           /\ DisposeBus(b))
            => /\ ~SetHas(myChildren'[myParent[b]], b)
               /\ raised' = "none"
               /\ \A x \in 1..nBuses :
                    ~InSubtree(b, x)
                      => /\ myDisposed'[x] = myDisposed[x]
                         /\ myRegistry'[x] = myRegistry[x]
                         /\ x # myParent[b] => myChildren'[x] = myChildren[x]
               /\ \A r \in 1..nRegs : ~InSubtree(b, regs[r].bus) => regs'[r] = regs[r]
     /\ \A x \in 1..nBuses : myDisposed[x] => EventsOn(log', x) = EventsOn(log, x)
     /\ raised' # "none" => myDisposed[1]]_vars

\* A child of the root was disposed with its registration; the root and another
\* child were not: the root dispatched the message published on it, the handler
\* of the other child received it, the disposed child did not dispatch it.
C29_Witness ==
  /\ raised = "none"
  /\ ~myDisposed[1]
  /\ \E x, y \in 2..nBuses, d \in DOMAIN published :
       /\ myParent[x] = 1 /\ myParent[y] = 1
       /\ myDisposed[x] /\ ~myDisposed[y]
       /\ \E r \in 1..nRegs : regs[r].bus = x /\ regs[r].isDisposed
       /\ Dispatches(1, d) # {}
       /\ HandlerCalls(y, d) # {}
       /\ EventsOn(log, x) = {}

\* The drains of bus b that the host has been asked to run.
Scheduled(ms, b) == Cardinality({i \in DOMAIN ms : ms[i] = b})

\* C30: a bus has at most one drain scheduled, and has one exactly while its
\* draining flag is set; a publish on a bus whose flag is set only appends its
\* task to the queue, a publish on a bus whose flag is clear schedules the one
\* drain; and the drain dispatches every queued message, once, and leaves the
\* queue empty and the flag clear.
C30_SingleDrain ==
  [][/\ \A b \in 1..nBuses :
          /\ Scheduled(microtasks', b) <= 1
          /\ myPublishing'[b] <=> Scheduled(microtasks', b) = 1
     /\ \A b \in Buses, topic \in Topics :
          (Len(published') = Len(published) + 1 /\ Publish(b, topic))
            => /\ Len(myPublishQueue'[b]) = Len(myPublishQueue[b]) + 1
               /\ microtasks' = IF myPublishing[b] THEN microtasks
                                 ELSE Append(microtasks, b)
     /\ (microtasks # <<>> /\ RunMicrotask)
          => LET b == Head(microtasks)
             IN /\ myPublishQueue'[b] = <<>>
                /\ ~myPublishing'[b]
                /\ \A k \in DOMAIN myPublishQueue[b] :
                     Cardinality(EventsIn(log', "dispatch", b, myPublishQueue[b][k].data)) = 1]_vars

\* Two messages wait in the queue of the bus and one drain is scheduled.
C30_Witness ==
  /\ Len(myPublishQueue[1]) >= 2
  /\ microtasks = <<1>>
  /\ myPublishing[1]
  /\ Len(published) >= 2

\* C34: a registration without a limit that was in the registry for the topic
\* before the message was published, and is not disposed, has been invoked
\* exactly once for the message when the bus has dispatched it, also when an
\* exhausted registration of the topic removed itself during the dispatch.
C34_AllInvoked ==
  \A d \in DOMAIN published, r \in 1..nRegs :
    (/\ Quiescent(published[d].bus)
     /\ Dispatches(published[d].bus, d) # {}
     /\ regs[r].kind = "handler"
     /\ regs[r].bus = published[d].bus
     /\ regs[r].topic = published[d].topic
     /\ r <= published[d].nRegs
     /\ regs[r].limit = defaultLimit
     /\ ~regs[r].isDisposed)
      => Cardinality(CallsFor(r, d)) = 1

\* C37: every bus in a children set is not disposed and has the owner of the set
\* as its parent; every bus that is not disposed and has a parent is in the
\* children set of its parent, and that parent is not disposed.
C37_TreeConsistent ==
  /\ \A p \in 1..nBuses : \A i \in DOMAIN myChildren[p] :
       /\ myChildren[p][i] \in 1..nBuses
       /\ ~myDisposed[myChildren[p][i]]
       /\ myParent[myChildren[p][i]] = p
  /\ \A x \in 1..nBuses :
       (~myDisposed[x] /\ myParent[x] # NoBus)
         => /\ SetHas(myChildren[myParent[x]], x)
            /\ ~myDisposed[myParent[x]]

\* The root has kept one child and lost another, which was disposed with a
\* child of its own.
C37_Witness ==
  /\ ~myDisposed[1]
  /\ \E x, y \in 2..nBuses :
       /\ myParent[x] = 1 /\ myParent[y] = x
       /\ myDisposed[x] /\ myDisposed[y]
       /\ ~SetHas(myChildren[1], x)
  /\ disposeCalls.bus >= 1

\* C38: of two `children` messages published on the same bus, every bus of the
\* subtree dispatches the first before the second, and none dispatches the second
\* without having dispatched the first, in whatever order the drains run.
C38_SubtreeOrder ==
  \A d1, d2 \in DOMAIN published :
    (/\ d1 < d2
     /\ published[d1].bus = published[d2].bus
     /\ published[d1].topic = "children"
     /\ published[d2].topic = "children")
      => \A x \in 1..published[d1].nBuses :
           InSubtree(published[d1].bus, x)
             => /\ \A i \in Dispatches(x, d1), j \in Dispatches(x, d2) : i < j
                /\ Dispatches(x, d2) # {} => Dispatches(x, d1) # {}

\* A grandchild of the publishing bus has dispatched both messages, the second of
\* which was published after the publishing bus had dispatched the first.
C38_Witness ==
  \E x \in 1..nBuses :
    /\ Len(published) >= 2
    /\ myParent[x] # NoBus
    /\ myParent[myParent[x]] = published[1].bus
    /\ published[2].bus = published[1].bus
    /\ published[2].queued = 0
    /\ Dispatches(x, 1) # {}
    /\ Dispatches(x, 2) # {}

\* C32: when the messages that consume the last deliveries of a limited
\* subscription are dispatched while pulls are pending, each pending pull gets
\* the value of its message, the one of the last delivery included, and none the
\* finished result; the registration is not disposed by the message of its last
\* delivery.
C32_DeliverThenDispose ==
  [][\A r \in RegIds :
       (/\ IsLazy(r)
        /\ microtasks # <<>>
        /\ Head(microtasks) = regs[r].bus
        /\ ~myDisposed[regs[r].bus]
        /\ InRegistry(r)
        /\ regs[r].remaining >= 1
        /\ regs[r].myPromiseQueue # <<>>
        /\ Len(QueuedData(regs[r].bus, regs[r].topic)) >= regs[r].remaining
        /\ RunMicrotask)
         => LET n == regs[r].remaining
                waiting == regs[r].myPromiseQueue
                data == QueuedData(regs[r].bus, regs[r].topic)
            IN /\ \A k \in 1..n :
                    k <= Len(waiting)
                      => /\ pulls'[waiting[k]].state = "value"
                         /\ pulls'[waiting[k]].value = data[k]
               /\ regs'[r].remaining = 0
               /\ Len(data) = n => ~regs'[r].isDisposed]_vars

\* The pull that waited has the value of the only message a subscription with
\* limit 1 may receive, and the registration is not disposed.
C32_Witness ==
  \E r \in 1..nRegs :
    /\ regs[r].kind = "lazy"
    /\ regs[r].limit = 1
    /\ regs[r].remaining = 0
    /\ ~regs[r].isDisposed
    /\ pulls # <<>>
    /\ pulls[1] = [reg |-> r, state |-> "value", value |-> 1, form |-> "next"]

\* The promise of single() for a pull: `!done ? value : error(...)` after
\* `await this.next()`.
SingleResult(p) ==
  CASE p.state = "value" -> [settled |-> "fulfilled", value |-> p.value]
    [] p.state = "done" -> [settled |-> "rejected", value |-> "DisposedError"]
    [] p.state = "rejected" -> [settled |-> "rejected", value |-> "UserError"]
    [] OTHER -> [settled |-> "pending", value |-> 0]

\* C33: a pull on a disposed lazy-pull subscription returns the oldest buffered
\* value without suspending while the buffer is not empty; with an empty buffer
\* next returns the finished result and single fails with the disposed error; in
\* neither case is a waiter enqueued or the registration put into the registry.
C33_DisposedPull ==
  [][\A r \in RegIds :
       (/\ r <= nRegs
        /\ IsLazy(r)
        /\ regs[r].isDisposed
        /\ PullNext(r) \/ PullSingle(r))
         => LET p == pulls'[Len(pulls) + 1]
                buf == regs[r].myDataQueue
            IN /\ Len(pulls') = Len(pulls) + 1
               /\ p.reg = r
               /\ p.state # "pending"
               /\ buf # <<>>
                    => /\ p.state = "value"
                       /\ p.value = Head(buf)
                       /\ regs'[r].myDataQueue = Tail(buf)
                       /\ SingleResult(p) = [settled |-> "fulfilled", value |-> Head(buf)]
               /\ buf = <<>>
                    => /\ p.state = "done"
                       /\ regs'[r].myDataQueue = <<>>
                       /\ SingleResult(p) = [settled |-> "rejected", value |-> "DisposedError"]
               /\ regs'[r].myPromiseQueue = regs[r].myPromiseQueue
               /\ regs'[r].isRegistered = regs[r].isRegistered
               /\ myRegistry' = myRegistry]_vars

\* single() was called on a subscription that was disposed before its first
\* pull: it failed with the disposed error and the registry was never entered.
C33_Witness ==
  \E r \in 1..nRegs :
    /\ regs[r].kind = "lazy"
    /\ regs[r].isDisposed
    /\ ~regs[r].isRegistered
    /\ regs[r].myPromiseQueue = <<>>
    /\ pulls # <<>>
    /\ pulls[1].reg = r
    /\ pulls[1].form = "single"
    /\ SingleResult(pulls[1]) = [settled |-> "rejected", value |-> "DisposedError"]
    /\ ~InRegistry(r)

\* The calls of r's callback with message d recorded in the log lg.
CallsIn(lg, r, d) ==
  {i \in DOMAIN lg : lg[i].k = "handler" /\ lg[i].reg = r /\ lg[i].msg = d}

\* C31: the drain gives each queued message to the handlers that are subscribed
\* to its topic and not disposed when the drain runs, once each, whether they were
\* subscribed before or after publish(); a handler disposed before the drain gets
\* none of the queued messages.
C31_DecidedAtDispatch ==
  [][(/\ microtasks # <<>>
      /\ Head(microtasks) = 1
      /\ RunMicrotask)
       => \A k \in DOMAIN myPublishQueue[1] :
            LET task == myPublishQueue[1][k]
            IN \A r \in 1..nRegs :
                 Cardinality(CallsIn(log', r, task.data))
                   = IF ~regs[r].isDisposed /\ regs[r].topic = task.topic
                     THEN 1 ELSE 0]_vars

\* A message reached a handler subscribed after its publish() and did not reach
\* a handler of its topic that was disposed between its publish() and its drain.
C31_Witness ==
  \E d \in DOMAIN published : \E r, q \in 1..nRegs :
    /\ r > published[d].nRegs
    /\ CallsFor(r, d) # {}
    /\ q <= published[d].nRegs
    /\ regs[q].topic = published[d].topic
    /\ CallsFor(q, d) = {}
    /\ \E i, j \in DOMAIN log :
         /\ i < j
         /\ log[i] = Event("dispose", 1, q, log[i].msg, 0)
         /\ log[i].msg >= d
         /\ log[j].k = "dispatch"
         /\ log[j].msg = d

\* The places (bus, topic, index) of the registries that hold r.
PlacesOf(r) ==
  {p \in Buses \X Topics \X (1..MaxRegs) :
     /\ p[3] <= Len(myRegistry[p[1]][p[2]])
     /\ myRegistry[p[1]][p[2]][p[3]] = r}

\* C39: a registration stored in a registry is not disposed and is stored once,
\* in the registry of its bus under its topic; a registration whose disposed flag
\* is set is in no registry.
C39_RegistryEntries ==
  \A r \in RegIds :
    /\ Cardinality(PlacesOf(r)) <= 1
    /\ \A p \in PlacesOf(r) :
         /\ r <= nRegs
         /\ ~regs[r].isDisposed
         /\ p[1] = regs[r].bus
         /\ p[2] = regs[r].topic
    /\ regs[r].isDisposed => PlacesOf(r) = {}

\* A subscription made without a callback was stored by its first pull, disposed
\* and pulled again, while another registration pulled twice is stored once.
C39_Witness ==
  \E r, q \in 1..nRegs :
    /\ regs[r].kind = "lazy"
    /\ regs[r].isRegistered
    /\ regs[r].isDisposed
    /\ PlacesOf(r) = {}
    /\ \E i \in DOMAIN pulls : pulls[i].reg = r /\ pulls[i].state = "done"
    /\ q # r
    /\ Cardinality(PlacesOf(q)) = 1

\* The events of one message are contiguous in the log lg, and the messages are
\* read from the registry in the order of their publication.
Unnested(lg) ==
  /\ \A i, j, k \in DOMAIN lg :
       (i < j /\ j < k /\ lg[i].msg = lg[k].msg) => lg[j].msg = lg[i].msg
  /\ \A i, j \in DOMAIN lg : i < j => lg[i].msg <= lg[j].msg

C36_QueuedDropped ==
  \A i, j \in DOMAIN log :
    (/\ i < j
     /\ log[i].k = "handler"
     /\ regs[log[i].reg].beh = "dispose"
     /\ log[j].k \in {"handler", "listener"}
     /\ log[j].msg > log[i].msg)
      => published[log[j].msg].bus # log[i].bus

====
